---- MODULE Spec2Model ----
(***************************************************************************)
(* productgenie: the product input form (URL tab and CSV tab), the App     *)
(* state it drives, and the analysis service the App calls.                *)
(*                                                                         *)
(* Strings are sequences of one-character strings, so that trim, split,    *)
(* replace and parseFloat are computed character by character as the       *)
(* JavaScript does.  A nullable value is Null or Some(v); a missing object *)
(* property reads as Undefined.                                            *)
(***************************************************************************)
EXTENDS Integers, Sequences, FiniteSets, TLC

VARIABLES
    state,            \* App: { status, data, error }
    pending,          \* inputs passed to handleAnalysis whose service call has not settled
    inputMode,        \* form: 'url' | 'csv'
    userProductUrl,   \* form, URL tab
    competitorUrls,   \* form, URL tab
    csvFile,          \* form, CSV tab: the selected File or null
    csvError,         \* form, CSV tab: message or null
    csvHeaders,       \* form, CSV tab
    csvData,          \* form, CSV tab: rows, each a mapping header -> cell
    fieldMapping,     \* form, CSV tab: { productName, currentPrice, userProductUrl, competitorUrls }
    reads             \* files whose parseCsv promise is still pending (FileReader in flight)

vars == <<state, pending, inputMode, userProductUrl, competitorUrls,
          csvFile, csvError, csvHeaders, csvData, fieldMapping, reads>>

appVars == <<state, pending>>
urlVars == <<userProductUrl, competitorUrls>>
csvVars == <<csvFile, csvError, csvHeaders, csvData, fieldMapping, reads>>

Null == <<>>
Some(v) == <<v>>
Undefined == <<"undefined">>   \* not a string: its one element is no character

\* Bounds of the model
MaxCompetitors == 3   \* entries of the URL tab's competitor list
MaxReads == 2         \* file reads in flight at once
MaxRows == 3          \* data rows of a generated table
MaxPriceLen == 3      \* characters of a generated price cell
MaxLineLen == 5       \* characters of a generated data line
MaxHeaderLen == 4     \* characters of a generated header line

(***************************************************************************)
(* Strings                                                                 *)
(***************************************************************************)
Whitespace == {" ", "\t", "\n", "\r"}

MapSeq(s, F(_)) == [i \in 1..Len(s) |-> F(s[i])]

Range(s) == {s[i] : i \in 1..Len(s)}

\* the indices of s that pass Test, in increasing order
Where(s, Test(_)) == SelectSeq([i \in 1..Len(s) |-> i], Test)

\* the characters of s at the given indices
Pick(s, indices) == [j \in 1..Len(indices) |-> s[indices[j]]]

\* String.prototype.trimStart
TrimStart(s) ==
    LET kept == Where(s, LAMBDA i : s[i] \notin Whitespace)
    IN  IF kept = <<>> THEN <<>> ELSE SubSeq(s, kept[1], Len(s))

\* String.prototype.trimEnd
TrimEnd(s) ==
    LET kept == Where(s, LAMBDA i : s[i] \notin Whitespace)
    IN  IF kept = <<>> THEN <<>> ELSE SubSeq(s, 1, kept[Len(kept)])

\* String.prototype.trim
Trim(s) == TrimEnd(TrimStart(s))

\* text.replace(/\r\n/g, '\n')
ReplaceCrLf(s) ==
    Pick(s, Where(s, LAMBDA i : ~(s[i] = "\r" /\ i < Len(s) /\ s[i + 1] = "\n")))

\* the pieces of s between the positions listed in cuts (increasing), each
\* cut one character wide, empty pieces kept
SplitAt(s, cuts) ==
    [k \in 1..(Len(cuts) + 1) |->
        SubSeq(s, IF k = 1 THEN 1 ELSE cuts[k - 1] + 1,
                  IF k <= Len(cuts) THEN cuts[k] - 1 ELSE Len(s))]

CharPositions(s, c) == Where(s, LAMBDA i : s[i] = c)

\* s.split(c) for a one-character separator
Split(s, c) == SplitAt(s, CharPositions(s, c))

\* s.filter(x => x) for strings: the elements that are not the empty string
NonEmpty(s) == SelectSeq(s, LAMBDA x : x # <<>>)

(***************************************************************************)
(* parseCsv (ProductInputForm.tsx 67-99)                                   *)
(***************************************************************************)
Quote == "\""
Comma == ","

\* The lookahead (?=(?:(?:[^"]*"){2})*[^"]*$) applied to the text s that
\* follows a comma: pairs of [^"]*" consumed greedily, then only non-quotes
\* up to the end of the string.
RECURSIVE Lookahead(_)
Lookahead(s) ==
    LET q == CharPositions(s, Quote)
    IN  IF q = <<>> THEN TRUE                       \* [^"]*$
        ELSE IF Len(q) = 1 THEN FALSE               \* one quote left: neither a pair nor [^"]*$
        ELSE Lookahead(SubSeq(s, q[2] + 1, Len(s))) \* one ([^"]*"){2} consumed

\* the positions at which /,(?=...)/ matches in row
RegexMatches(row) ==
    Where(row, LAMBDA i : row[i] = Comma /\ Lookahead(SubSeq(row, i + 1, Len(row))))

\* row.split(regex)
SplitRegex(row) == SplitAt(row, RegexMatches(row))

\* val.replace(/^"|"$/g, '')
StripQuotes(val) ==
    LET a == IF val # <<>> /\ Head(val) = Quote THEN Tail(val) ELSE val   \* ^"
    IN  IF a # <<>> /\ a[Len(a)] = Quote THEN SubSeq(a, 1, Len(a) - 1) ELSE a   \* "$

CleanValue(val) == StripQuotes(Trim(val))

\* row.split(regex).map(val => val.trim().replace(/^"|"$/g, ''))
RowValues(row) == MapSeq(SplitRegex(row), CleanValue)

\* headers.reduce((obj, header, index) => { obj[header] = values[index] || ''; ... }, {})
\* a later column with the same header overwrites an earlier one
LastIndexOf(headers, h) ==
    CHOOSE i \in 1..Len(headers) :
        headers[i] = h /\ \A j \in (i + 1)..Len(headers) : headers[j] # h

RowObject(headers, values) ==
    [h \in Range(headers) |->
        LET i == LastIndexOf(headers, h)
        IN  IF i <= Len(values) THEN values[i] ELSE <<>>]

\* text.replace(/\r\n/g, '\n').split('\n').map(row => row.trim()).filter(row => row)
TextRows(text) == NonEmpty(MapSeq(Split(ReplaceCrLf(text), "\n"), Trim))

FormatErrorMessage == "CSV file must contain a header row and at least one data row."

parseCsv(text) ==
    LET rows == TextRows(text)
    IN  IF Len(rows) < 2
        THEN [ok |-> FALSE, message |-> FormatErrorMessage, headers |-> <<>>, data |-> <<>>]
        ELSE LET headers == MapSeq(Split(Head(rows), Comma), Trim)
                 data == MapSeq(Tail(rows), LAMBDA row : RowObject(headers, RowValues(row)))
             IN  [ok |-> TRUE, message |-> "", headers |-> headers, data |-> data]

(***************************************************************************)
(* Price parsing (ProductInputForm.tsx 136, 143)                           *)
(***************************************************************************)
Digits == {"0", "1", "2", "3", "4", "5", "6", "7", "8", "9"}

DigitValue(c) ==
    CASE c = "0" -> 0 [] c = "1" -> 1 [] c = "2" -> 2 [] c = "3" -> 3 [] c = "4" -> 4
      [] c = "5" -> 5 [] c = "6" -> 6 [] c = "7" -> 7 [] c = "8" -> 8 [] c = "9" -> 9

\* s.replace(/[^0-9.-]+/g, "")
StripPrice(s) == SelectSeq(s, LAMBDA c : c \in Digits \cup {".", "-"})

RECURSIVE DigitPrefix(_)
DigitPrefix(s) ==
    IF s # <<>> /\ Head(s) \in Digits THEN <<Head(s)>> \o DigitPrefix(Tail(s)) ELSE <<>>

RECURSIVE DropTrailingZeros(_)
DropTrailingZeros(d) ==
    IF d # <<>> /\ d[Len(d)] = "0" THEN DropTrailingZeros(SubSeq(d, 1, Len(d) - 1)) ELSE d

RECURSIVE DigitsValue(_)
DigitsValue(d) ==
    IF d = <<>> THEN 0 ELSE 10 * DigitsValue(SubSeq(d, 1, Len(d) - 1)) + DigitValue(d[Len(d)])

\* A number is num / 10^scale (fraction without trailing zeros), or NaN.
NaN == [nan |-> TRUE, num |-> 0, scale |-> 0]
Number(num, scale) == [nan |-> FALSE, num |-> num, scale |-> scale]

\* parseFloat: leading white space skipped, an optional sign, then the longest
\* prefix that is digits, digits '.' digits?, or '.' digits; NaN when there is
\* none.  (No exponent or "Infinity" can follow: StripPrice leaves no letters.)
parseFloat(str) ==
    LET s == TrimStart(str)
        signed == s # <<>> /\ Head(s) \in {"-", "+"}
        negative == s # <<>> /\ Head(s) = "-"
        t == IF signed THEN Tail(s) ELSE s
        int == DigitPrefix(t)
        rest == SubSeq(t, Len(int) + 1, Len(t))
        frac == IF rest # <<>> /\ Head(rest) = "." THEN DigitPrefix(Tail(rest)) ELSE <<>>
        f == DropTrailingZeros(frac)
        magnitude == DigitsValue(int \o f)
    IN  IF int = <<>> /\ frac = <<>> THEN NaN
        ELSE Number(IF negative THEN 0 - magnitude ELSE magnitude, Len(f))

isNaN(n) == n.nan

(***************************************************************************)
(* Row normalisation: the reduce of handleSubmit                           *)
(* (ProductInputForm.tsx 127-160)                                          *)
(***************************************************************************)
\* row[header]: undefined when the row has no such property
Lookup(row, header) == IF header \in DOMAIN row THEN row[header] ELSE Undefined

\* Boolean(v) for a string or undefined
Truthy(v) == v # Undefined /\ v # <<>>

\* v || ''
OrEmpty(v) == IF Truthy(v) THEN v ELSE <<>>

\* `Row ${rowNum}: Price is missing.`
\* `Row ${rowNum}: Invalid price value "${cell}".`
RowError(rowNum, text, cell) == [rowNum |-> rowNum, text |-> text, cell |-> cell]

CsvProduct(productName, price, url, competitors) ==
    [productName |-> productName, currentPrice |-> price,
     userProductUrl |-> url, competitorUrls |-> competitors]

\* fieldMapping.competitorUrls.map(header => row[header]).filter(Boolean)
CompetitorCells(row, columns) ==
    SelectSeq(MapSeq(columns, LAMBDA header : Lookup(row, header)), Truthy)

\* (a reduce callback that lets a row without a product name through)
ReduceRowNoSkip(acc, row, index, mapping) ==
    LET productName == OrEmpty(Lookup(row, mapping.productName))
        priceCell == Lookup(row, mapping.currentPrice)
        priceString == StripPrice(OrEmpty(priceCell))
        price == parseFloat(priceString)
    IN  IF priceString = <<>>
        THEN [acc EXCEPT !.errors = Append(@, RowError(index + 2, "Price is missing.", <<>>))]
        ELSE IF isNaN(price)
        THEN [acc EXCEPT !.errors = Append(@, RowError(index + 2, "Invalid price value", priceCell))]
        ELSE [acc EXCEPT !.validProducts =
                Append(@, CsvProduct(productName, price,
                                     OrEmpty(Lookup(row, mapping.userProductUrl)),
                                     CompetitorCells(row, mapping.competitorUrls)))]

\* the callback of csvData.reduce; index is 0-based as in the code
ReduceRow(acc, row, index, mapping) ==
    LET rowNum == index + 2
        productName == Lookup(row, mapping.productName)
        priceCell == Lookup(row, mapping.currentPrice)
        priceString == StripPrice(OrEmpty(priceCell))
        price == parseFloat(priceString)
    IN  IF ~Truthy(productName) \/ Trim(productName) = <<>>
        THEN acc
        ELSE IF priceString = <<>>
        THEN [acc EXCEPT !.errors = Append(@, RowError(rowNum, "Price is missing.", <<>>))]
        ELSE IF isNaN(price)
        THEN [acc EXCEPT !.errors = Append(@, RowError(rowNum, "Invalid price value", priceCell))]
        ELSE [acc EXCEPT !.validProducts =
                Append(@, CsvProduct(productName, price,
                                     OrEmpty(Lookup(row, mapping.userProductUrl)),
                                     CompetitorCells(row, mapping.competitorUrls)))]

RECURSIVE ReduceFrom(_, _, _, _)
ReduceFrom(acc, data, index, mapping) ==
    IF index >= Len(data) THEN acc
    ELSE ReduceFrom(ReduceRow(acc, data[index + 1], index, mapping), data, index + 1, mapping)

\* csvData.reduce(..., { validProducts: [], errors: [] })
Normalize(data, mapping) ==
    ReduceFrom([validProducts |-> <<>>, errors |-> <<>>], data, 0, mapping)

(***************************************************************************)
(* The analysis service (services/geminiService)                           *)
(*                                                                         *)
(* A response of the external model is [rejects, text, sources]: rejects   *)
(* is "no" when generateContent resolves, "error" when it rejects with an  *)
(* Error and "other" when it rejects with another value.  The text is a    *)
(* string in which a whole JSON document is one element (a member of       *)
(* JsonDocs) and a markdown fence is one element.                          *)
(***************************************************************************)
JsonDocs == {"{analysis}", "{results:[analysis]}", "{results:1}", "null"}

\* JSON.parse: one document, white space around it allowed
JsonParse(text) ==
    LET t == Trim(text)
    IN  IF Len(t) = 1 /\ t[1] \in JsonDocs
        THEN [ok |-> TRUE, doc |-> t[1]]
        ELSE [ok |-> FALSE, doc |-> "SyntaxError"]

Fence == <<"fence">>     \* the three backquotes of a markdown fence, as one element
FenceOpen == Fence \o <<"j", "s", "o", "n">>

StartsAt(s, pat, i) ==
    /\ i >= 1
    /\ i + Len(pat) - 1 <= Len(s)
    /\ SubSeq(s, i, i + Len(pat) - 1) = pat

\* an optional newline and the closing fence, at position k
CloseAt(s, k) == StartsAt(s, Fence, k) \/ (StartsAt(s, <<"\n">>, k) /\ StartsAt(s, Fence, k + 1))

\* jsonText.match(fence "json" \n? ([\s\S]*?) \n? fence): the captured group
\* of the first match, or Undefined when there is no match
FenceCapture(s) ==
    LET opens == {i \in 1..Len(s) :
                    /\ StartsAt(s, FenceOpen, i)
                    /\ \E k \in (i + Len(FenceOpen))..Len(s) : CloseAt(s, k)}
    IN  IF opens = {} THEN Undefined
        ELSE LET i == CHOOSE x \in opens : \A y \in opens : x <= y
                 j == i + Len(FenceOpen)
                 closesAfterNewline == {k \in (j + 1)..Len(s) : CloseAt(s, k)}
                 from == IF StartsAt(s, <<"\n">>, j) /\ closesAfterNewline # {}
                         THEN j + 1 ELSE j
                 closes == {k \in from..Len(s) : CloseAt(s, k)}
                 k == CHOOSE x \in closes : \A y \in closes : x <= y
             IN  SubSeq(s, from, k - 1)

ServiceResult(value) == [ok |-> TRUE, value |-> value, message |-> "", reason |-> ""]
ServiceError(message, reason) == [ok |-> FALSE, value |-> <<>>, message |-> message, reason |-> reason]

Analysis(doc, sources) == [analysis |-> doc, sources |-> sources]

\* analyzeSingleProduct (geminiService 56-97), given the model's response
analyzeSingleProduct(response) ==
    LET prefix == "Failed to get analysis from PredictGenie. Reason: "
        jsonText == Trim(response.text)
        parsed == JsonParse(jsonText)
    IN  IF response.rejects = "other"
        THEN ServiceError("An unknown error occurred while analyzing prices.", "")
        ELSE IF response.rejects = "error"
        THEN ServiceError(prefix, "generateContent rejected")
        ELSE IF response.text = Undefined
        THEN ServiceError(prefix, "TypeError")          \* undefined.trim()
        ELSE IF jsonText = <<>>
        THEN ServiceError(prefix, "Received an empty response from the AI. The model might be unable to process the request with the given inputs.")
        ELSE IF ~parsed.ok
        THEN ServiceError(prefix, parsed.doc)
        ELSE ServiceResult(Analysis(parsed.doc, <<>>))

\* (a batch analysis that returns whatever parses, results array or not)
analyzeBatchProductsUnchecked(response) ==
    IF response.rejects = "no" /\ response.text # Undefined /\ JsonParse(Trim(response.text)).ok
    THEN ServiceResult(<<Analysis(JsonParse(Trim(response.text)).doc, response.sources)>>)
    ELSE ServiceError("Failed to get batch analysis from PredictGenie. Reason: ", "")

\* analyzeBatchProducts (geminiService 100-164), given the model's response
analyzeBatchProducts(response) ==
    LET prefix == "Failed to get batch analysis from PredictGenie. Reason: "
        trimmed == Trim(response.text)
        capture == FenceCapture(trimmed)
        jsonText == IF Truthy(capture) THEN capture ELSE trimmed
        parsed == JsonParse(jsonText)
    IN  IF response.rejects = "other"
        THEN ServiceError("An unknown error occurred while analyzing the batch of products.", "")
        ELSE IF response.rejects = "error"
        THEN ServiceError(prefix, "generateContent rejected")
        ELSE IF response.text = Undefined
        THEN ServiceError(prefix, "TypeError")          \* undefined.trim()
        ELSE IF jsonText = <<>>
        THEN ServiceError(prefix, "Received an empty or invalid response from the AI for batch analysis.")
        ELSE IF ~parsed.ok
        THEN ServiceError(prefix, parsed.doc)
        ELSE IF parsed.doc = "null"
        THEN ServiceError(prefix, "TypeError")          \* null.results
        ELSE IF parsed.doc # "{results:[analysis]}"
        THEN ServiceError(prefix, "API response is missing the 'results' array or it is not in the correct format.")
        ELSE ServiceResult(<<Analysis("analysis", response.sources)>>)

(***************************************************************************)
(* App (App.tsx)                                                           *)
(***************************************************************************)
AppState(status, data, error) == [status |-> status, data |-> data, error |-> error]

\* isLoading={state.status === 'loading'}: the prop of the form's last render
isLoading == state.status = "loading"

UrlInput(url, competitors) ==
    [type |-> "url", userProductUrl |-> url, competitorUrls |-> competitors, products |-> <<>>]
CsvInput(products) ==
    [type |-> "csv", userProductUrl |-> <<>>, competitorUrls |-> <<>>, products |-> products]

handleAnalysisKeepsResult(input) ==
    /\ state' = [state EXCEPT !.status = "loading"]
    /\ pending' = Append(pending, input)

\* handleAnalysis up to its await: the state is set to loading and the call
\* to the service is issued
handleAnalysis(input) ==
    /\ state' = AppState("loading", Null, Null)
    /\ pending' = Append(pending, input)

RemoveAt(s, i) == SubSeq(s, 1, i - 1) \o SubSeq(s, i + 1, Len(s))

\* (a failed call is issued again)
SettleRetries(i, response) ==
    /\ i \in 1..Len(pending)
    /\ LET input == pending[i]
           single == analyzeSingleProduct(response)
           batch == analyzeBatchProducts(response)
           result == IF input.type = "url"
                     THEN (IF single.ok THEN ServiceResult(<<single.value>>) ELSE single)
                     ELSE batch
       IN  state' = IF result.ok
                    THEN AppState("success", Some(result.value), Null)
                    ELSE AppState("error", Null,
                                  Some([message |-> result.message, reason |-> result.reason]))
    /\ pending' = IF (IF pending[i].type = "url"
                        THEN analyzeSingleProduct(response).ok
                        ELSE analyzeBatchProducts(response).ok)
                   THEN RemoveAt(pending, i)
                   ELSE Append(RemoveAt(pending, i), pending[i])
    /\ UNCHANGED <<inputMode, urlVars, csvVars>>

\* handleAnalysis after its await: the call for pending[i] settles with the
\* model's response
Settle(i, response) ==
    /\ i \in 1..Len(pending)
    /\ LET input == pending[i]
           single == analyzeSingleProduct(response)
           batch == analyzeBatchProducts(response)
           result == IF input.type = "url"
                     THEN (IF single.ok THEN ServiceResult(<<single.value>>) ELSE single)
                     ELSE batch
       IN  state' = IF result.ok
                    THEN AppState("success", Some(result.value), Null)
                    ELSE AppState("error", Null,
                                  Some([message |-> result.message, reason |-> result.reason]))
    /\ pending' = RemoveAt(pending, i)
    /\ UNCHANGED <<inputMode, urlVars, csvVars>>

(***************************************************************************)
(* ProductInputForm: the tabs and the URL tab                              *)
(***************************************************************************)
SetInputMode(mode) ==
    /\ inputMode' = mode
    /\ UNCHANGED <<appVars, urlVars, csvVars>>

SetUserProductUrl(value) ==
    /\ inputMode = "url"
    /\ userProductUrl' = value
    /\ UNCHANGED <<appVars, inputMode, competitorUrls, csvVars>>

handleCompetitorUrlChange(index, value) ==
    /\ inputMode = "url"
    /\ index \in 1..Len(competitorUrls)
    /\ competitorUrls' = [competitorUrls EXCEPT ![index] = value]
    /\ UNCHANGED <<appVars, inputMode, userProductUrl, csvVars>>

\* addCompetitor; the list is capped at MaxCompetitors entries
addCompetitor ==
    /\ inputMode = "url"
    /\ Len(competitorUrls) < MaxCompetitors
    /\ competitorUrls' = Append(competitorUrls, <<>>)
    /\ UNCHANGED <<appVars, inputMode, userProductUrl, csvVars>>

removeCompetitor(index) ==
    /\ inputMode = "url"
    /\ index \in 1..Len(competitorUrls)
    /\ competitorUrls' = RemoveAt(competitorUrls, index)
    /\ UNCHANGED <<appVars, inputMode, userProductUrl, csvVars>>

(***************************************************************************)
(* ProductInputForm: the CSV tab                                           *)
(***************************************************************************)
Message(text, count, errors) == [text |-> text, count |-> count, errors |-> errors]

EmptyMapping ==
    [productName |-> <<>>, currentPrice |-> <<>>, userProductUrl |-> <<>>, competitorUrls |-> <<>>]

\* a File: whether its type includes 'csv' or its name ends with '.csv', and its text
File(isCsv, text) == [isCsv |-> isCsv, text |-> text]

\* (a selection that keeps the mapping of the upload before)
handleFileChangeKeepsMapping(selection) ==
    /\ inputMode = "csv"
    /\ csvFile' = selection
    /\ csvHeaders' = <<>>
    /\ csvData' = <<>>
    /\ fieldMapping' = fieldMapping
    /\ IF selection = Null
       THEN csvError' = Null /\ reads' = reads
       ELSE IF ~selection[1].isCsv
       THEN /\ csvError' = Some(Message("Invalid file type. Please upload a .csv file.", 0, <<>>))
            /\ reads' = reads
       ELSE /\ Len(reads) < MaxReads
            /\ csvError' = Null
            /\ reads' = Append(reads, selection[1])
    /\ UNCHANGED <<appVars, inputMode, urlVars>>

\* handleFileChange up to its await; selection is Null when the dialog
\* returns no file
handleFileChange(selection) ==
    /\ inputMode = "csv"
    /\ csvFile' = selection
    /\ csvHeaders' = <<>>
    /\ csvData' = <<>>
    /\ fieldMapping' = EmptyMapping
    /\ IF selection = Null
       THEN csvError' = Null /\ reads' = reads
       ELSE IF ~selection[1].isCsv
       THEN /\ csvError' = Some(Message("Invalid file type. Please upload a .csv file.", 0, <<>>))
            /\ reads' = reads
       ELSE /\ Len(reads) < MaxReads
            /\ csvError' = Null
            /\ reads' = Append(reads, selection[1])
    /\ UNCHANGED <<appVars, inputMode, urlVars>>

\* reader.onload of the i-th pending read, and handleFileChange after its await
FileLoad(i) ==
    /\ i \in 1..Len(reads)
    /\ LET parsed == parseCsv(reads[i].text)
       IN  IF parsed.ok
           THEN /\ csvHeaders' = parsed.headers
                /\ csvData' = parsed.data
                /\ csvError' = csvError
           ELSE /\ csvError' = Some(Message(parsed.message, 0, <<>>))
                /\ UNCHANGED <<csvHeaders, csvData>>
    /\ reads' = RemoveAt(reads, i)
    /\ UNCHANGED <<appVars, inputMode, urlVars, csvFile, fieldMapping>>

\* reader.onerror of the i-th pending read, and handleFileChange after its await
FileReadError(i) ==
    /\ i \in 1..Len(reads)
    /\ csvError' = Some(Message("Failed to read the file.", 0, <<>>))
    /\ reads' = RemoveAt(reads, i)
    /\ UNCHANGED <<appVars, inputMode, urlVars, csvFile, csvHeaders, csvData, fieldMapping>>

\* the options of a mapping select: "Select column..." and every header
SelectOptions == {<<>>} \cup Range(csvHeaders)

\* CsvMappingInterface is rendered when the CSV tab shows and headers exist
MappingShown == inputMode = "csv" /\ Len(csvHeaders) > 0

SetProductNameColumn(header) ==
    /\ MappingShown
    /\ header \in SelectOptions
    /\ fieldMapping' = [fieldMapping EXCEPT !.productName = header]
    /\ UNCHANGED <<appVars, inputMode, urlVars, csvFile, csvError, csvHeaders, csvData, reads>>

SetCurrentPriceColumn(header) ==
    /\ MappingShown
    /\ header \in SelectOptions
    /\ fieldMapping' = [fieldMapping EXCEPT !.currentPrice = header]
    /\ UNCHANGED <<appVars, inputMode, urlVars, csvFile, csvError, csvHeaders, csvData, reads>>

SetUserProductUrlColumn(header) ==
    /\ MappingShown
    /\ header \in SelectOptions
    /\ fieldMapping' = [fieldMapping EXCEPT !.userProductUrl = header]
    /\ UNCHANGED <<appVars, inputMode, urlVars, csvFile, csvError, csvHeaders, csvData, reads>>

Includes(s, x) == \E i \in 1..Len(s) : s[i] = x

\* columns.filter(h => h !== header)
Without(s, x) == SelectSeq(s, LAMBDA h : h # x)

\* (a toggle that only ever adds)
ToggledColumnsAddOnly(columns, header) == Append(columns, header)

\* newCompetitorUrls of handleCompetitorHeaderToggle
ToggledColumns(columns, header) ==
    IF Includes(columns, header) THEN Without(columns, header) ELSE Append(columns, header)

handleCompetitorHeaderToggle(header) ==
    /\ MappingShown
    /\ header \in Range(csvHeaders)
    /\ fieldMapping' = [fieldMapping EXCEPT !.competitorUrls = ToggledColumns(@, header)]
    /\ UNCHANGED <<appVars, inputMode, urlVars, csvFile, csvError, csvHeaders, csvData, reads>>

(***************************************************************************)
(* handleSubmit (ProductInputForm.tsx 110-179)                             *)
(***************************************************************************)
FailureMessageGeneric(errors) ==
    Message("Analysis failed. The CSV contains no rows that could be analyzed.", 0, <<>>)

FailureMessage(errors) ==
    IF Len(errors) > 0
    THEN Message("Analysis failed. ", 0, errors)
    ELSE Message("Analysis failed. The CSV contains no rows that could be analyzed.", 0, <<>>)

WarningMessageFirstOnly(errors) ==
    Message("Warning: Skipped # invalid rows. Reasons: ", Len(errors), <<Head(errors)>>)

\* the warning of handleSubmit: the text, errors.length and errors.join(' ')
WarningMessage(errors) == Message("Warning: Skipped # invalid rows. Reasons: ", Len(errors), errors)

\* (no filter: every entry is kept)
NonBlankKeepsAll(urls) == urls

\* competitorUrls.filter(url => url.trim() !== '')
NonBlank(urls) == SelectSeq(urls, LAMBDA url : Trim(url) # <<>>)

SubmitGuardNever == FALSE

\* if (isLoading) return;
SubmitGuard == isLoading

MappingReadyNameOnly == fieldMapping.productName # <<>>

\* the negation of (!fieldMapping.productName || !fieldMapping.currentPrice)
MappingReady == fieldMapping.productName # <<>> /\ fieldMapping.currentPrice # <<>>

SubmitUrl ==
    LET nonEmptyCompetitors == NonBlank(competitorUrls)
    IN  /\ IF Trim(userProductUrl) # <<>> /\ Len(nonEmptyCompetitors) > 0
           THEN handleAnalysis(UrlInput(userProductUrl, nonEmptyCompetitors))
           ELSE UNCHANGED appVars
        /\ UNCHANGED csvError

\* lines 162-173: what handleSubmit does with the result of the reduce
SubmitProducts(result) ==
    IF Len(result.validProducts) = 0
    THEN /\ csvError' = Some(FailureMessage(result.errors))
         /\ UNCHANGED appVars
    ELSE /\ csvError' = IF Len(result.errors) > 0 THEN Some(WarningMessage(result.errors)) ELSE Null
         /\ handleAnalysis(CsvInput(result.validProducts))

SubmitCsv ==
    IF csvFile = Null
    THEN /\ csvError' = Some(Message("Please select a CSV file.", 0, <<>>))
         /\ UNCHANGED appVars
    ELSE IF ~MappingReady
    THEN /\ csvError' = Some(Message("You must map columns for 'Product Name' and 'Current Price'.", 0, <<>>))
         /\ UNCHANGED appVars
    ELSE SubmitProducts(Normalize(csvData, fieldMapping))

handleSubmit ==
    /\ IF SubmitGuard
       THEN UNCHANGED <<appVars, csvError>>
       ELSE IF inputMode = "url" THEN SubmitUrl ELSE SubmitCsv
    /\ UNCHANGED <<inputMode, urlVars, csvFile, csvHeaders, csvData, fieldMapping, reads>>

(***************************************************************************)
(* The program: initial state and next-state relation                      *)
(***************************************************************************)
InitialUserProductUrl == <<"https://www.example-store.com/products/pro-camera-x1">>
InitialCompetitorUrls ==
    << <<"https://www.competitor-a.com/pro-camera-x1">>,
       <<"https://www.competitor-b.com/cameras/pro-cam-x1-model">> >>

Init ==
    /\ state = AppState("idle", Null, Null)
    /\ pending = <<>>
    /\ inputMode = "url"
    /\ userProductUrl = InitialUserProductUrl
    /\ competitorUrls = InitialCompetitorUrls
    /\ csvFile = Null
    /\ csvError = Null
    /\ csvHeaders = <<>>
    /\ csvData = <<>>
    /\ fieldMapping = EmptyMapping
    /\ reads = <<>>

\* n,p / W,5 / X,N/A
FileA == File(TRUE, <<"n", ",", "p", "\n", "W", ",", "5", "\n", "X", ",", "N", "/", "A", "\n">>)
\* a header and no data row
FileB == File(TRUE, <<"n", ",", "p", "\r", "\n">>)
\* not a .csv file
FileC == File(FALSE, <<"n", ",", "p", "\n", "W", ",", "5">>)
\* p,q / -5,"a,b"
FileD == File(TRUE, <<"p", ",", "q", "\n", "-", "5", ",", Quote, "a", ",", "b", Quote>>)

Files == {FileA, FileB, FileC, FileD}

UrlValues == {<<>>, <<" ">>, <<"u">>}

Response(rejects, text, sources) == [rejects |-> rejects, text |-> text, sources |-> sources]

\* the response texts: nothing, white space, and each JSON document bare,
\* in a json fence, after prose (fenced or bare), and fenced without newlines
Prose == <<"H", "e", "r", "e", ":", " ">>
Fenced(doc) == FenceOpen \o <<"\n", doc, "\n">> \o Fence

ResponseTexts ==
    {<<>>, <<" ">>, Prose}
    \cup {<<doc>> : doc \in JsonDocs}
    \cup {Fenced(doc) : doc \in JsonDocs}
    \cup {Prose \o <<doc>> : doc \in {"{results:[analysis]}", "{analysis}"}}
    \cup {Prose \o Fenced(doc) \o <<"\n">> : doc \in {"{results:[analysis]}"}}
    \cup {FenceOpen \o <<doc>> \o Fence : doc \in {"{results:[analysis]}"}}
    \cup {FenceOpen \o Fence, FenceOpen \o <<"\n", "{results:[analysis]}">>}

Responses ==
    {Response(r, <<>>, <<>>) : r \in {"error", "other"}}
    \cup {Response("no", Undefined, <<>>)}     \* a response without a text part
    \cup {Response("no", t, src) : t \in ResponseTexts, src \in {<<>>, <<"source">>}}

Next ==
    \/ \E mode \in {"url", "csv"} : SetInputMode(mode)
    \/ \E v \in UrlValues : SetUserProductUrl(v)
    \/ \E i \in 1..MaxCompetitors, v \in UrlValues : handleCompetitorUrlChange(i, v)
    \/ addCompetitor
    \/ \E i \in 1..MaxCompetitors : removeCompetitor(i)
    \/ \E f \in Files : handleFileChange(Some(f))
    \/ handleFileChange(Null)
    \/ \E i \in 1..MaxReads : FileLoad(i)
    \/ \E i \in 1..MaxReads : FileReadError(i)
    \/ \E h \in SelectOptions : SetProductNameColumn(h)
    \/ \E h \in SelectOptions : SetCurrentPriceColumn(h)
    \/ \E h \in SelectOptions : SetUserProductUrlColumn(h)
    \/ \E h \in Range(csvHeaders) : handleCompetitorHeaderToggle(h)
    \/ handleSubmit
    \/ \E i \in 1..Len(pending), r \in Responses : Settle(i, r)

Spec == Init /\ [][Next]_vars

(***************************************************************************)
(* Restrictions of the program to one concern each.  Every initial state   *)
(* below is a state Spec reaches, and every action is an action of Next.   *)
(***************************************************************************)
\* the form after handleFileChange(Some(file)) and FileLoad from Init, with
\* the columns of mapping then chosen in the mapping interface
LoadedAndMapped(file, mapping) ==
    LET parsed == parseCsv(file.text)
    IN  /\ state = AppState("idle", Null, Null)
        /\ pending = <<>>
        /\ inputMode = "csv"
        /\ userProductUrl = InitialUserProductUrl
        /\ competitorUrls = InitialCompetitorUrls
        /\ csvFile = Some(file)
        /\ csvError = IF parsed.ok THEN Null ELSE Some(Message(parsed.message, 0, <<>>))
        /\ csvHeaders = parsed.headers
        /\ csvData = parsed.data
        /\ fieldMapping = mapping
        /\ reads = <<>>

Loaded(file) == LoadedAndMapped(file, EmptyMapping)

\* Submitting: the tabs, the column mapping of a loaded file, submit and the
\* service's answers.
InitSubmit == Init \/ \E f \in {FileA, FileD} : Loaded(f)

NextSubmit ==
    \/ \E mode \in {"url", "csv"} : SetInputMode(mode)
    \/ \E h \in SelectOptions : SetProductNameColumn(h)
    \/ \E h \in SelectOptions : SetCurrentPriceColumn(h)
    \/ \E h \in SelectOptions : SetUserProductUrlColumn(h)
    \/ \E h \in Range(csvHeaders) : handleCompetitorHeaderToggle(h)
    \/ handleSubmit
    \/ \E i \in 1..Len(pending), r \in Responses : Settle(i, r)

SpecSubmit == InitSubmit /\ [][NextSubmit]_vars

\* Normalising: a loaded table with a ready mapping, submit and the service's
\* answers.  The tables are the parses of a header n,p followed by up to
\* MaxRows lines of NormLines, or by one line W,<price> for every price cell
\* of up to MaxPriceLen characters of PriceChars.
SeqsUpTo(S, n) == UNION {[1..k -> S] : k \in 0..n}

RECURSIVE JoinLines(_)
JoinLines(lines) ==
    IF lines = <<>> THEN <<>> ELSE <<"\n">> \o Head(lines) \o JoinLines(Tail(lines))

NormHeader == <<"n", ",", "p">>

NormLines ==
    { <<"W", ",", "5">>,                  \* valid
      <<"X", ",", "N", "/", "A">>,        \* no digit in the price cell
      <<",", "7">>,                       \* no product name
      <<"Y", ",", "-">>,                  \* a price that parses to no number
      <<"Z", ",", "-", "5">>,             \* a negative price
      <<Quote, " ", Quote, ",", "3">> }   \* a product name of white space

PriceChars == {"5", ".", "-", "$"}

NormTexts ==
    {NormHeader \o JoinLines(lines) : lines \in SeqsUpTo(NormLines, MaxRows) \ {<<>>}}
    \cup {NormHeader \o <<"\n", "W", ",">> \o price : price \in SeqsUpTo(PriceChars, MaxPriceLen)}

ReadyMappings ==
    { [productName |-> <<"n">>, currentPrice |-> <<"p">>,
       userProductUrl |-> <<>>, competitorUrls |-> <<>>],
      [productName |-> <<"n">>, currentPrice |-> <<"p">>,
       userProductUrl |-> <<"n">>, competitorUrls |-> << <<"p">>, <<"n">> >>] }

InitNorm == \E text \in NormTexts, mapping \in ReadyMappings :
                LoadedAndMapped(File(TRUE, text), mapping)

NextNorm ==
    \/ handleSubmit
    \/ \E i \in 1..Len(pending), r \in Responses : Settle(i, r)

SpecNorm == InitNorm /\ [][NextNorm]_vars

\* Parsing: a selected file whose read is in flight, and the end of the read.
\* The texts are a header h,i,j followed by one data line of up to MaxLineLen
\* characters of LineChars, and the sample file of downloadSampleCsv.
Selected(file) ==
    /\ state = AppState("idle", Null, Null)
    /\ pending = <<>>
    /\ inputMode = "csv"
    /\ userProductUrl = InitialUserProductUrl
    /\ competitorUrls = InitialCompetitorUrls
    /\ csvFile = Some(file)
    /\ csvError = Null
    /\ csvHeaders = <<>>
    /\ csvData = <<>>
    /\ fieldMapping = EmptyMapping
    /\ reads = <<file>>

LineChars == {Comma, Quote, "a"}

ParseHeader == <<"h", ",", "i", ",", "j">>

\* csvContent of downloadSampleCsv
SampleCsv ==
    <<
        "p", "r", "o", "d", "u", "c", "t", "N", "a", "m", "e", ",", "c", "u", "r", "r", "e",
        "n", "t", "P", "r", "i", "c", "e", ",", "u", "s", "e", "r", "P", "r", "o", "d", "u",
        "c", "t", "U", "r", "l", ",", "c", "o", "m", "p", "e", "t", "i", "t", "o", "r", "U",
        "r", "l", "_", "1", ",", "c", "o", "m", "p", "e", "t", "i", "t", "o", "r", "U", "r",
        "l", "_", "2", "\n", Quote, "P", "r", "o", " ", "C", "a", "m", "e", "r", "a", " ", "X",
        "1", ",", " ", "w", "i", "t", "h", " ", "s", "t", "a", "n", "d", Quote, ",", "4", "9",
        "9", ".", "9", "9", ",", "h", "t", "t", "p", "s", ":", "/", "/", "y", "o", "u", "r",
        "s", "t", "o", "r", "e", ".", "c", "o", "m", "/", "p", "r", "o", "-", "c", "a", "m",
        "e", "r", "a", ",", "h", "t", "t", "p", "s", ":", "/", "/", "c", "o", "m", "p", "e",
        "t", "i", "t", "o", "r", "A", ".", "c", "o", "m", "/", "c", "a", "m", "e", "r", "a",
        "-", "x", "1", ",", "h", "t", "t", "p", "s", ":", "/", "/", "c", "o", "m", "p", "e",
        "t", "i", "t", "o", "r", "B", ".", "c", "o", "m", "/", "p", "r", "o", "-", "c", "a",
        "m", "-", "x", "1", "\n", "W", "i", "r", "e", "l", "e", "s", "s", " ", "H", "e", "a",
        "d", "p", "h", "o", "n", "e", "s", " ", "Z", ",", "$", "1", "4", "9", ".", "0", "0",
        ",", "h", "t", "t", "p", "s", ":", "/", "/", "y", "o", "u", "r", "s", "t", "o", "r",
        "e", ".", "c", "o", "m", "/", "h", "e", "a", "d", "p", "h", "o", "n", "e", "s", "-",
        "z", ",", "h", "t", "t", "p", "s", ":", "/", "/", "c", "o", "m", "p", "e", "t", "i",
        "t", "o", "r", "A", ".", "c", "o", "m", "/", "h", "e", "a", "d", "p", "h", "o", "n",
        "e", "s", "-", "z", "-", "p", "r", "o", ",", "h", "t", "t", "p", "s", ":", "/", "/",
        "c", "o", "m", "p", "e", "t", "i", "t", "o", "r", "C", ".", "c", "o", "m", "/", "a",
        "u", "d", "i", "o", "/", "w", "i", "r", "e", "l", "e", "s", "s", "-", "z", "\n", "S",
        "m", "a", "r", "t", " ", "F", "i", "t", "n", "e", "s", "s", " ", "W", "a", "t", "c",
        "h", " ", "V", "2", ",", "2", "2", "9", ".", "5", "0", ",", "h", "t", "t", "p", "s",
        ":", "/", "/", "y", "o", "u", "r", "s", "t", "o", "r", "e", ".", "c", "o", "m", "/",
        "s", "m", "a", "r", "t", "-", "w", "a", "t", "c", "h", ",", ",", "\n"
    >>

ParseTexts ==
    {ParseHeader \o <<"\n">> \o line : line \in SeqsUpTo(LineChars, MaxLineLen) \ {<<>>}}
    \cup {SampleCsv}

InitParse == \E text \in ParseTexts : Selected(File(TRUE, text))

NextParse ==
    \/ \E i \in 1..MaxReads : FileLoad(i)
    \/ \E i \in 1..MaxReads : FileReadError(i)

SpecParse == InitParse /\ [][NextParse]_vars

\* Files: selections on the CSV tab, the reads they start (which cannot be
\* cancelled and may complete in any order) and the mapping interface.
InitFileTab ==
    /\ state = AppState("idle", Null, Null)
    /\ pending = <<>>
    /\ inputMode = "csv"
    /\ userProductUrl = InitialUserProductUrl
    /\ competitorUrls = InitialCompetitorUrls
    /\ csvFile = Null
    /\ csvError = Null
    /\ csvHeaders = <<>>
    /\ csvData = <<>>
    /\ fieldMapping = EmptyMapping
    /\ reads = <<>>

NextFile ==
    \/ \E f \in Files : handleFileChange(Some(f))
    \/ handleFileChange(Null)
    \/ \E i \in 1..MaxReads : FileLoad(i)
    \/ \E i \in 1..MaxReads : FileReadError(i)
    \/ \E h \in SelectOptions : SetProductNameColumn(h)
    \/ \E h \in SelectOptions : SetCurrentPriceColumn(h)
    \/ \E h \in SelectOptions : SetUserProductUrlColumn(h)
    \/ \E h \in Range(csvHeaders) : handleCompetitorHeaderToggle(h)

SpecFile == InitFileTab /\ [][NextFile]_vars

\* Tables: a loaded file whose header line is any text of up to MaxHeaderLen
\* characters of HeaderChars, followed by the data row W,5,x; the columns
\* are chosen in the mapping interface, then submit.
HeaderChars == {"n", "p", Comma}

TableRow == <<"W", ",", "5", ",", "x">>

TableTexts ==
    {header \o <<"\n">> \o TableRow : header \in SeqsUpTo(HeaderChars, MaxHeaderLen) \ {<<>>}}

InitTable == \E text \in TableTexts : Loaded(File(TRUE, text))

NextTable ==
    \/ \E h \in SelectOptions : SetProductNameColumn(h)
    \/ \E h \in SelectOptions : SetCurrentPriceColumn(h)
    \/ \E h \in SelectOptions : SetUserProductUrlColumn(h)
    \/ handleSubmit

SpecTable == InitTable /\ [][NextTable]_vars

\* URLs: the fields of the URL tab and submit.
NextUrl ==
    \/ \E v \in UrlValues : SetUserProductUrl(v)
    \/ \E i \in 1..MaxCompetitors, v \in UrlValues : handleCompetitorUrlChange(i, v)
    \/ addCompetitor
    \/ \E i \in 1..MaxCompetitors : removeCompetitor(i)
    \/ handleSubmit

SpecUrl == Init /\ [][NextUrl]_vars

\* Service: a request dispatched from the URL tab or from a loaded and mapped
\* table, the answers of the external model, and submitting again.
InitService == Init \/ \E mapping \in ReadyMappings : LoadedAndMapped(FileA, mapping)

NextService ==
    \/ \E mode \in {"url", "csv"} : SetInputMode(mode)
    \/ handleSubmit
    \/ \E i \in 1..Len(pending), r \in Responses : Settle(i, r)

SpecService == InitService /\ [][NextService]_vars

\* Lines: a loaded table with a ready mapping whose text is the header n,p
\* followed by up to MaxRows lines of FileLines, blank lines among them;
\* submit and the service's answers.
FileLines ==
    { <<>>,                     \* a blank line
      <<"W", ",", "5">>,        \* valid
      <<"X", ",", "x">> }       \* no digit in the price cell

LinesTexts ==
    {text \in {NormHeader \o JoinLines(lines) : lines \in SeqsUpTo(FileLines, MaxRows)} :
        parseCsv(text).ok}

InitLines == \E text \in LinesTexts, mapping \in ReadyMappings :
                 LoadedAndMapped(File(TRUE, text), mapping)

SpecLines == InitLines /\ [][NextNorm]_vars

(***************************************************************************)
(* Properties                                                              *)
(***************************************************************************)
\* a step of handleSubmit that passed an input to onAnalyze
Dispatched == handleSubmit /\ pending' # pending

MappingMessage == Message("You must map columns for 'Product Name' and 'Current Price'.", 0, <<>>)

\* C1: at most one analysis request is outstanding at any time: while a
\* dispatched request has not settled (the App is loading), a submit of the
\* form, in either mode, dispatches nothing and leaves the App state unchanged.
C1_OneRequestAtATime ==
    /\ [](Len(pending) <= 1)
    /\ [][(pending # <<>> /\ handleSubmit) => UNCHANGED <<state, pending>>]_vars

C1_Witness_LoadingCsvTab ==
    /\ state.status = "loading"
    /\ Len(pending) = 1
    /\ inputMode = "csv"
    /\ csvFile # Null
    /\ fieldMapping.productName # <<>>
    /\ fieldMapping.currentPrice # <<>>

\* C2: in every reachable App state the three fields agree: idle and loading
\* carry neither data nor error, success carries data and no error, error
\* carries an error and no data (so a failed analysis shows nothing of an
\* earlier result).
C2_AppStateConsistent ==
    /\ state.status \in {"idle", "loading", "success", "error"}
    /\ state.status \in {"idle", "loading"} => state.data = Null /\ state.error = Null
    /\ state.status = "success" => state.data # Null /\ state.error = Null
    /\ state.status = "error" => state.data = Null /\ state.error # Null

C2_Witness_Failed == state.status = "error" /\ state.error # Null /\ pending = <<>>

RequiredColumnUnset == fieldMapping.productName = <<>> \/ fieldMapping.currentPrice = <<>>

\* C3 as claimed: a CSV-mode submit made while the productName or the
\* currentPrice column is unset dispatches nothing, sets csvError to the
\* message naming 'Product Name' and 'Current Price', and leaves the App
\* state, the table and the mapping unchanged.
C3_Claimed_UnsetMappingMessage ==
    [][(handleSubmit /\ inputMode = "csv" /\ RequiredColumnUnset)
        => /\ csvError' = Some(MappingMessage)
           /\ UNCHANGED <<state, pending, csvHeaders, csvData, fieldMapping>>]_vars

\* C3 amended: the same, for a submit made while the App is not loading and
\* a file is selected.
C3_UnsetMappingBlocksSubmit ==
    [][(handleSubmit /\ inputMode = "csv" /\ RequiredColumnUnset
            /\ state.status # "loading" /\ csvFile # Null)
        => /\ csvError' = Some(MappingMessage)
           /\ UNCHANGED <<state, pending, csvHeaders, csvData, fieldMapping>>]_vars

C3_Witness_MappingMessageShown ==
    /\ inputMode = "csv"
    /\ csvFile # Null
    /\ Len(csvData) > 0
    /\ fieldMapping.productName # <<>>
    /\ fieldMapping.currentPrice = <<>>
    /\ csvError = Some(MappingMessage)
    /\ state.status = "idle"

\* The outcome of a data row under the current mapping, as the specification
\* words it: skipped when the product-name cell is missing, empty or white
\* space; otherwise an error when the price cell, stripped of every character
\* that is not a digit, '.' or '-', is empty or parses to no number;
\* otherwise valid.
BlankName(row) ==
    LET name == Lookup(row, fieldMapping.productName)
    IN  name = Undefined \/ \A i \in 1..Len(name) : name[i] \in Whitespace

PriceText(row) == StripPrice(OrEmpty(Lookup(row, fieldMapping.currentPrice)))

Parseable(row) == PriceText(row) # <<>> /\ ~parseFloat(PriceText(row)).nan

SkippedRows == {i \in 1..Len(csvData) : BlankName(csvData[i])}
ErrorRows == {i \in 1..Len(csvData) : ~BlankName(csvData[i]) /\ ~Parseable(csvData[i])}
ValidRows == {i \in 1..Len(csvData) : ~BlankName(csvData[i]) /\ Parseable(csvData[i])}

\* the members of a set of indices, in increasing order
InOrder(S) ==
    IF S = {} THEN <<>>
    ELSE LET top == CHOOSE x \in S : \A y \in S : y <= x
         IN  SelectSeq([i \in 1..top |-> i], LAMBDA i : i \in S)

\* the products of the request passed to onAnalyze by this step
DispatchedProducts == pending'[Len(pending')].products

\* the non-empty cells of the selected competitor columns, in the order the
\* columns stand in the CSV header
HeaderOrderCells(row) ==
    LET selected == {i \in 1..Len(csvHeaders) : Includes(fieldMapping.competitorUrls, csvHeaders[i])}
        cells == MapSeq(InOrder(selected), LAMBDA i : Lookup(row, csvHeaders[i]))
    IN  NonEmpty(cells)

\* C8 as claimed: the competitorUrls of every validated product are the
\* non-empty cells of the selected competitor columns in the order of the CSV
\* header, whatever the order of the toggles.
C8_Claimed_HeaderOrder ==
    [][(Dispatched /\ inputMode = "csv")
        => \A k \in 1..Len(DispatchedProducts) :
              DispatchedProducts[k].competitorUrls
                = HeaderOrderCells(csvData[InOrder(ValidRows)[k]])]_vars

\* C4 as claimed: every product a CSV-mode submit passes to onAnalyze has a
\* currentPrice that is a number, not negative, and a productName that is not
\* empty and not white space only, whatever the price cell holds.
C4_Claimed_ProductFieldsValid ==
    \A i \in 1..Len(pending) : \A k \in 1..Len(pending[i].products) :
        LET product == pending[i].products[k]
        IN  /\ ~product.currentPrice.nan
            /\ product.currentPrice.num >= 0
            /\ \E j \in 1..Len(product.productName) : product.productName[j] \notin Whitespace

\* a CSV-mode submit that reaches the normalisation of the rows
NormalizingSubmit ==
    /\ handleSubmit
    /\ inputMode = "csv"
    /\ state.status # "loading"
    /\ csvFile # Null
    /\ ~RequiredColumnUnset

\* what the step recorded: the products passed on, and the row errors shown
ProductsPassed == IF pending' # pending THEN DispatchedProducts ELSE <<>>
ErrorsShown == IF csvError' = Null THEN <<>> ELSE csvError'[1].errors

\* the RowError section 4.3 gives the row at index i (row number i + 1)
ExpectedRowError(i) ==
    IF PriceText(csvData[i]) = <<>>
    THEN RowError(i + 1, "Price is missing.", <<>>)
    ELSE RowError(i + 1, "Invalid price value", Lookup(csvData[i], fieldMapping.currentPrice))

ExpectedRowErrors == MapSeq(InOrder(ErrorRows), ExpectedRowError)

\* C5: with a ready mapping every data row is skipped, an error or valid:
\* the products are the valid rows in row order, one each; the errors are the
\* error rows in row order, one each; a skipped row leaves neither; so
\* products + errors + skipped = rows.
C5_RowOutcomesPartition ==
    [][NormalizingSubmit
        => /\ Len(ProductsPassed) = Cardinality(ValidRows)
           /\ \A k \in 1..Len(ProductsPassed) :
                LET row == csvData[InOrder(ValidRows)[k]]
                IN  /\ ProductsPassed[k].productName = Lookup(row, fieldMapping.productName)
                    /\ ProductsPassed[k].currentPrice = parseFloat(PriceText(row))
           /\ Len(ErrorsShown) = Cardinality(ErrorRows)
           /\ \A k \in 1..Len(ErrorsShown) : ErrorsShown[k].rowNum = InOrder(ErrorRows)[k] + 1
           /\ Len(ProductsPassed) + Len(ErrorsShown) + Cardinality(SkippedRows) = Len(csvData)]_vars

C5_Witness_AllThreeOutcomes ==
    /\ state.status = "loading"
    /\ Len(pending) = 1
    /\ pending[1].type = "csv"
    /\ csvError # Null
    /\ ValidRows # {} /\ ErrorRows # {} /\ SkippedRows # {}
    /\ Len(pending[1].products) = Cardinality(ValidRows)
    /\ Len(csvError[1].errors) = Cardinality(ErrorRows)

GenericFailure == Message("Analysis failed. The CSV contains no rows that could be analyzed.", 0, <<>>)

\* C6: a CSV-mode submit with a ready mapping that validates no row dispatches
\* nothing, leaves the App state unchanged and sets csvError to a failure
\* message holding the error text of every failed row, or to the generic
\* empty-batch message when no row failed.
C6_NoValidRowFails ==
    [][(NormalizingSubmit /\ ValidRows = {})
        => /\ UNCHANGED <<state, pending>>
           /\ csvError' = IF ErrorRows # {}
                          THEN Some(Message("Analysis failed. ", 0, ExpectedRowErrors))
                          ELSE Some(GenericFailure)]_vars

C6_Witness_EveryRowFailed ==
    /\ state.status = "idle"
    /\ pending = <<>>
    /\ ValidRows = {}
    /\ Cardinality(ErrorRows) >= 2
    /\ csvError = Some(Message("Analysis failed. ", 0, ExpectedRowErrors))

\* C7: a CSV-mode submit with a ready mapping that validates at least one row
\* dispatches exactly one batch request carrying the valid rows in row order;
\* csvError becomes the 'Warning:' message with the number of rejected rows and
\* the error text of each, or null when no row was rejected.
C7_PartialBatchWarns ==
    [][(NormalizingSubmit /\ ValidRows # {})
        => /\ Len(pending') = Len(pending) + 1
           /\ SubSeq(pending', 1, Len(pending)) = pending
           /\ pending'[Len(pending')].type = "csv"
           /\ MapSeq(DispatchedProducts, LAMBDA product : product.productName)
                = MapSeq(InOrder(ValidRows),
                         LAMBDA i : Lookup(csvData[i], fieldMapping.productName))
           /\ csvError' = IF ErrorRows # {}
                          THEN Some(Message("Warning: Skipped # invalid rows. Reasons: ",
                                            Cardinality(ErrorRows), ExpectedRowErrors))
                          ELSE Null]_vars

C7_Witness_WarningAndBatch ==
    /\ state.status = "loading"
    /\ Len(pending) = 1
    /\ Len(pending[1].products) >= 2
    /\ csvError # Null
    /\ csvError[1].count >= 1
    /\ csvError[1].errors = ExpectedRowErrors

\* the table shown is the parse of the selected file (no read is in flight)
FileParsed == csvFile # Null /\ reads = <<>> /\ Len(csvHeaders) > 0

\* the data lines of the selected file
DataLines == Tail(TextRows(csvFile[1].text))

\* The commas of a line at which a scan from the start of the line is outside
\* quotes: an even number of double quotes precede them.
OutsideQuotes(line, i) ==
    Cardinality({j \in 1..(i - 1) : line[j] = Quote}) % 2 = 0

ScanFields(line) ==
    SplitAt(line, InOrder({i \in 1..Len(line) : line[i] = Comma /\ OutsideQuotes(line, i)}))

\* C9 as claimed: parseCsv splits each data line exactly at the commas that a
\* scan from the start of the line finds outside quotes, balanced or not.
C9_Claimed_SplitsOutsideQuotes ==
    FileParsed =>
        \A r \in 1..Len(csvData) :
            csvData[r] = RowObject(csvHeaders, MapSeq(ScanFields(DataLines[r]), CleanValue))

\* a field wholly enclosed in one pair of double quotes and containing commas
QuotedWithCommas(field) ==
    /\ Len(field) >= 3
    /\ field[1] = Quote
    /\ field[Len(field)] = Quote
    /\ \A j \in 2..(Len(field) - 1) : field[j] # Quote
    /\ \E j \in 2..(Len(field) - 1) : field[j] = Comma

SampleName == <<"P", "r", "o", " ", "C", "a", "m", "e", "r", "a", " ", "X", "1", ",", " ", "w", "i", "t", "h", " ", "s", "t", "a", "n", "d">>
SamplePrice == <<"4", "9", "9", ".", "9", "9">>
HeaderProductName == <<"p", "r", "o", "d", "u", "c", "t", "N", "a", "m", "e">>
HeaderCurrentPrice == <<"c", "u", "r", "r", "e", "n", "t", "P", "r", "i", "c", "e">>

\* the sample file parses to 3 rows, the first with the quoted product name
\* whole and the price under its own header
C10_SampleFileParses ==
    (FileParsed /\ csvFile[1].text = SampleCsv)
        => /\ Len(csvData) = 3
           /\ csvData[1][HeaderProductName] = SampleName
           /\ csvData[1][HeaderCurrentPrice] = SamplePrice

\* C10 as claimed: a field of a data line wholly enclosed in one pair of
\* double quotes and containing commas parses to one cell holding the text
\* between the quotes, the cells after it stay under their own headers, and
\* the sample file parses as described.
C10_Claimed_QuotedFieldIsOneCell ==
    /\ C10_SampleFileParses
    /\ FileParsed =>
        \A r \in 1..Len(csvData) :
            LET fields == ScanFields(DataLines[r])
            IN  \A k \in 1..Len(fields) :
                    (QuotedWithCommas(fields[k]) /\ k <= Len(csvHeaders))
                        => /\ csvData[r][csvHeaders[k]] = SubSeq(fields[k], 2, Len(fields[k]) - 1)
                           /\ \A j \in (k + 1)..Len(fields) :
                                j <= Len(csvHeaders)
                                    => csvData[r][csvHeaders[j]] = CleanValue(fields[j])

FormatFailure == Message(FormatErrorMessage, 0, <<>>)

\* the number of lines of a text that hold a character other than white space
NonBlankLines(text) ==
    LET lines == Split(text, "\n")
    IN  Cardinality({k \in 1..Len(lines) :
                        \E j \in 1..Len(lines[k]) : lines[k][j] \notin Whitespace})

\* C11 as claimed: when the read of a text with fewer than 2 non-blank lines
\* completes, the parse fails: csvError holds the failure message and the
\* headers and the rows are empty (so that the mapping interface is not
\* shown and no CSV-mode submit can dispatch).
C11_Claimed_FailedParseLeavesNoTable ==
    [][\A i \in 1..Len(reads) :
          (FileLoad(i) /\ NonBlankLines(reads[i].text) < 2)
              => /\ csvError' = Some(FormatFailure)
                 /\ csvHeaders' = <<>>
                 /\ csvData' = <<>>]_vars

\* C12 as claimed: when no user-URL column is mapped, every product a
\* CSV-mode submit passes on has the empty string as userProductUrl, whatever
\* the header names and the cells of the table.
C12_Claimed_UnmappedUrlIsEmpty ==
    [][(Dispatched /\ inputMode = "csv" /\ fieldMapping.userProductUrl = <<>>)
        => \A k \in 1..Len(DispatchedProducts) :
              DispatchedProducts[k].userProductUrl = <<>>]_vars

NoHeaderTwice(columns) ==
    \A i, j \in 1..Len(columns) : columns[i] = columns[j] => i = j

\* C13: the competitor selection never holds a header twice; a toggle of h
\* flips the membership of h and of no other header, leaves the three
\* single-column mappings unchanged, and a second toggle of h, applied to the
\* selection the first one left, gives back the set of columns selected before.
C13_ToggleFlipsMembership ==
    /\ [](NoHeaderTwice(fieldMapping.competitorUrls))
    /\ [][\A h \in Range(csvHeaders) :
            handleCompetitorHeaderToggle(h)
                => /\ \A g \in Range(csvHeaders) \cup Range(fieldMapping.competitorUrls)
                                \cup Range(fieldMapping'.competitorUrls) :
                          Includes(fieldMapping'.competitorUrls, g)
                            <=> (Includes(fieldMapping.competitorUrls, g) # (g = h))
                   /\ fieldMapping'.productName = fieldMapping.productName
                   /\ fieldMapping'.currentPrice = fieldMapping.currentPrice
                   /\ fieldMapping'.userProductUrl = fieldMapping.userProductUrl
                   /\ Range(ToggledColumns(fieldMapping'.competitorUrls, h))
                        = Range(fieldMapping.competitorUrls)]_vars

C13_Witness_TwoColumnsToggled ==
    /\ Len(csvHeaders) = 2
    /\ fieldMapping.competitorUrls = <<csvHeaders[2], csvHeaders[1]>>
    /\ fieldMapping.productName # <<>>

\* a string with a character other than white space
NotBlank(s) == \E j \in 1..Len(s) : s[j] \notin Whitespace

\* the entries of the competitor list that are not blank, in list order
NotBlankCompetitors ==
    MapSeq(InOrder({i \in 1..Len(competitorUrls) : NotBlank(competitorUrls[i])}),
           LAMBDA i : competitorUrls[i])

\* C14: a URL-mode submit made while not loading dispatches a 'url' request
\* if and only if userProductUrl is not blank and some competitor URL is not
\* blank; the request carries userProductUrl as entered and the competitor
\* URLs that are not blank, in list order; otherwise nothing is dispatched
\* and the App state and csvError are unchanged.
C14_UrlSubmitDispatches ==
    [][(handleSubmit /\ inputMode = "url" /\ state.status # "loading")
        => IF NotBlank(userProductUrl) /\ NotBlankCompetitors # <<>>
           THEN /\ Len(pending') = Len(pending) + 1
                /\ SubSeq(pending', 1, Len(pending)) = pending
                /\ pending'[Len(pending')].type = "url"
                /\ pending'[Len(pending')].userProductUrl = userProductUrl
                /\ pending'[Len(pending')].competitorUrls = NotBlankCompetitors
                /\ csvError' = csvError
           ELSE UNCHANGED <<state, pending, csvError>>]_vars

C14_Witness_BlankCompetitorDropped ==
    /\ Len(pending) = 1
    /\ pending[1].type = "url"
    /\ pending[1].userProductUrl = userProductUrl
    /\ Len(competitorUrls) = 3
    /\ ~NotBlank(competitorUrls[2])
    /\ pending[1].competitorUrls = <<competitorUrls[1], competitorUrls[3]>>

\* the external call rejects, returns no text or a blank one, or (for a batch
\* request) returns a text that holds no payload with a results array
FailedCall(response, type) ==
    \/ response.rejects # "no"
    \/ response.text = Undefined
    \/ ~NotBlank(response.text)
    \/ type = "csv" /\ "{results:[analysis]}" \notin Range(response.text)

\* C15: when the external call of a dispatched request rejects, returns
\* empty text or (batch mode) returns a payload without a results array, the
\* App ends the request in status 'error' with a non-null reason, and not in
\* status 'success'.
C15_FailedCallEndsInError ==
    [][\A i \in 1..Len(pending) : \A r \in Responses :
          (Settle(i, r) /\ FailedCall(r, pending[i].type))
              => /\ state'.status = "error"
                 /\ state'.error # Null
                 /\ state'.data = Null]_vars

C15_Witness_MissingResults ==
    /\ state.status = "error"
    /\ state.error # Null
    /\ state.error[1].reason
         = "API response is missing the 'results' array or it is not in the correct format."
    /\ pending = <<>>

Payload == "{results:[analysis]}"

\* texts that embed the payload in a json fence, with or without prose around it
FencedPayloads ==
    {Fenced(Payload), FenceOpen \o <<Payload>> \o Fence, Prose \o Fenced(Payload) \o <<"\n">>}

\* texts that embed the payload in prose, in a json fence, or in both
WrappedPayloads == FencedPayloads \cup {Prose \o <<Payload>>}

\* a batch request settles with a text of the set texts, and the App
\* reaches status 'success'
ExtractsFrom(texts) ==
    \A i \in 1..Len(pending) : \A r \in Responses :
        (Settle(i, r) /\ pending[i].type = "csv" /\ r.rejects = "no" /\ r.text \in texts)
            => state'.status = "success" /\ state'.data # Null

\* the fenced payloads are extracted, prose around the fence or not
C16_FencedPayloadExtracted == [][ExtractsFrom(FencedPayloads)]_vars

\* C16 as claimed: for every batch response whose text embeds one valid
\* payload wrapped in prose, in a markdown json fence, or in both,
\* analyzeBatchProducts extracts the payload and the App reaches 'success'.
C16_Claimed_WrappedPayloadExtracted == [][ExtractsFrom(WrappedPayloads)]_vars

InvalidTypeMessage == Message("Invalid file type. Please upload a .csv file.", 0, <<>>)

\* the selections of the file input: no file, or one of Files
Selections == {Null} \cup {Some(f) : f \in Files}

\* what a selection resets and what it leaves alone, csvError apart
SelectionResets ==
    /\ csvHeaders' = <<>>
    /\ csvData' = <<>>
    /\ fieldMapping'.productName = <<>>
    /\ fieldMapping'.currentPrice = <<>>
    /\ fieldMapping'.userProductUrl = <<>>
    /\ fieldMapping'.competitorUrls = <<>>
    /\ UNCHANGED <<userProductUrl, competitorUrls, inputMode, state, pending>>

\* C17 as claimed: a selection sets csvError to null, empties the headers and
\* the rows, resets the four mapping fields, and leaves the URL fields, the
\* input mode and the App state unchanged.
C17_Claimed_SelectionClearsError ==
    [][\A selection \in Selections :
          handleFileChange(selection) => csvError' = Null /\ SelectionResets]_vars

\* C17 amended: the same, except that csvError is the invalid-type message
\* when the selected file is not a CSV file.
C17_SelectionReplacesCsvState ==
    [][\A selection \in Selections :
          handleFileChange(selection)
              => /\ csvFile' = selection
                 /\ csvError' = IF selection # Null /\ ~selection[1].isCsv
                                THEN Some(InvalidTypeMessage) ELSE Null
                 /\ SelectionResets]_vars

C17_Witness_NonCsvSelectedDuringRead ==
    /\ csvFile = Some(FileC)
    /\ csvError = Some(InvalidTypeMessage)
    /\ csvHeaders = <<>>
    /\ csvData = <<>>
    /\ fieldMapping = EmptyMapping
    /\ Len(reads) = 1

\* C18: the calls to the external service are the requests in pending.  A
\* call is issued only by a submit, one per dispatching submit; a call that
\* settles, in failure as in success, is not issued again; so no call is
\* outstanding unless the App is loading.
C18_OneCallPerSubmit ==
    /\ [](pending # <<>> => state.status = "loading")
    /\ [][/\ Len(pending') > Len(pending)
                => handleSubmit /\ Len(pending') = Len(pending) + 1
          /\ (state.status = "loading" /\ state'.status # "loading")
                => Len(pending') = Len(pending) - 1]_vars

C18_Witness_RejectedCallSettled ==
    /\ state.status = "error"
    /\ state.error # Null
    /\ state.error[1].reason = "generateContent rejected"
    /\ pending = <<>>

ReadFailure == Message("Failed to read the file.", 0, <<>>)

\* what the selection of file alone produces as <<headers, rows, error>>,
\* once its read, if any, has completed or failed
Outcomes(file) ==
    IF ~file.isCsv THEN {<< <<>>, <<>>, Some(InvalidTypeMessage) >>}
    ELSE {<< <<>>, <<>>, Some(ReadFailure) >>}
         \cup (IF NonBlankLines(file.text) < 2
               THEN {<< <<>>, <<>>, Some(FormatFailure) >>}
               ELSE {<< parseCsv(file.text).headers, parseCsv(file.text).data, Null >>})

\* C19 as claimed: once every read has settled, csvHeaders, csvData and
\* csvError are those produced by the most recently selected file, csvFile,
\* whichever read completed last.
C19_Claimed_LastSelectionWins ==
    (reads = <<>> /\ csvFile # Null)
        => <<csvHeaders, csvData, csvError>> \in Outcomes(csvFile[1])

\* the lines of the selected file's text, as an editor numbers them
FileTextLines == Split(csvFile[1].text, "\n")

\* the 1-based line number, in the file's text, of the data row at index i
\* of csvData: the header is the first non-blank line, the row the (i+1)-th
LineNumberOfRow(i) ==
    InOrder({k \in 1..Len(FileTextLines) :
                \E j \in 1..Len(FileTextLines[k]) : FileTextLines[k][j] \notin Whitespace})[i + 1]

\* C20 as claimed: the row number of every RowError of a submit is the
\* 1-based line number of its data row in the uploaded text, the header being
\* line 1.
C20_Claimed_RowNumberIsLineNumber ==
    [][NormalizingSubmit
        => \A k \in 1..Len(ErrorsShown) :
              ErrorsShown[k].rowNum = LineNumberOfRow(InOrder(ErrorRows)[k])]_vars

\* a column of the mapping is unset or a header of the loaded table
UnsetOrHeader(column) == column = <<>> \/ column \in Range(csvHeaders)

\* C21 as claimed: in every reachable form state each column named by the
\* field mapping (productName, currentPrice, userProductUrl and every entry
\* of competitorUrls) is unset or a header of the loaded table.
C21_Claimed_MappingNamesHeaders ==
    /\ UnsetOrHeader(fieldMapping.productName)
    /\ UnsetOrHeader(fieldMapping.currentPrice)
    /\ UnsetOrHeader(fieldMapping.userProductUrl)
    /\ \A k \in 1..Len(fieldMapping.competitorUrls) :
          UnsetOrHeader(fieldMapping.competitorUrls[k])

====
